---- MODULE Spec2Model ----
(***************************************************************************)
(* A model of the UnixFS file builder of go-unixfsnode                     *)
(* (data/builder/file.go): BuildUnixFSFile drives a chunker, stores every  *)
(* chunk as a raw leaf and packs the leaves into DAG-PB interior nodes of  *)
(* at most DefaultLinksPerBlock links.  The recursion of fileTreeRecursive *)
(* is kept as an explicit stack of frames; one action is one iteration of  *)
(* a frame's fill loop, one packing of a frame, or one round of the outer  *)
(* loop of BuildUnixFSFile.                                                *)
(*                                                                         *)
(* A link is modelled by the block it addresses: the CID is a collision    *)
(* free hash of codec and bytes, so two links are equal exactly when the   *)
(* blocks are.                                                             *)
(*                                                                         *)
(* Beside the file builder the module holds the file reader (file/file.go: *)
(* NewUnixFSFile, AsBytes, singleNodeFile.Seek), the directory builders    *)
(* (BuildUnixFSDirectory, BuildUnixFSRecursive,                            *)
(* BuildUnixFSShardedDirectory), the packing step of the file builder at   *)
(* the 64-bit width of its sizes, the reifiers (Reify, ReifyDagPB), the    *)
(* directory packing of the test-data generator and the deferred file      *)
(* node.  Each has a specification of its own: Spec, SpecSeek, SpecDir,    *)
(* SpecHamt, SpecWide, SpecReify, SpecGen, SpecDeferred.  SpecBuilds runs  *)
(* either builder of a tree of blocks, SpecLive is Spec with fairness.     *)
(***************************************************************************)
EXTENDS Integers, Sequences, FiniteSets, TLC

VARIABLES stream, pos, pulls, sink, prev, depth, stack, pc, result, failed,
          readback, hamt, dir, wide, sf, reify, gen, dfn

\* the state of the file builder, and the state of the other components
fileVars == <<stream, pos, pulls, sink, prev, depth, stack, pc, result, failed>>

others == <<hamt, dir, wide, sf, reify, gen, dfn>>

vars == <<fileVars, readback, others>>

\* a component that is not in use
Idle == [pc |-> "idle"]

(***************************************************************************)
(* Program constants                                                       *)
(***************************************************************************)
roughLinkBlockSize == 2^13

roughLinkSize == 34 + 8 + 5

DefaultLinksPerBlock == roughLinkBlockSize \div roughLinkSize

(***************************************************************************)
(* Bounds of the model: the chunk streams a behaviour may start from       *)
(***************************************************************************)
MaxSmall == 3

MaxFull == 2

MaxOver == 2

MaxPeriod == 2

\* the numbers of chunks tried: the short streams and the streams around
\* every multiple of the fanout up to MaxFull full interior nodes
ChunkCounts ==
    (0..MaxSmall) \cup
    { k * DefaultLinksPerBlock + j : k \in 1..MaxFull, j \in (-1)..MaxOver }

\* period 0: all chunks differ; period p > 0: the chunks repeat every p
Periods == 0..MaxPeriod

ChunkBytes(j) ==
    IF j % 2 = 0 THEN <<j \div 256, j % 256>>
                 ELSE <<j \div 256, j % 256, 255>>

ChunkAt(period, i) ==
    ChunkBytes(IF period = 0 THEN i ELSE i % period)

StreamOf(n, period) == [i \in 1..n |-> ChunkAt(period, i)]

(***************************************************************************)
(* Helpers                                                                 *)
(***************************************************************************)
\* the sum of s[lo..hi], halving the range to keep the evaluation shallow
RECURSIVE SumRange(_, _, _)
SumRange(s, lo, hi) ==
    IF lo > hi THEN 0
    ELSE IF lo = hi THEN s[lo]
    ELSE LET mid == (lo + hi) \div 2
         IN  SumRange(s, lo, mid) + SumRange(s, mid + 1, hi)

SumSeq(s) == SumRange(s, 1, Len(s))

RECURSIVE VarintLen(_)
VarintLen(n) == IF n < 128 THEN 1 ELSE 1 + VarintLen(n \div 128)

(***************************************************************************)
(* fileShardMeta, fileShards                                               *)
(***************************************************************************)
Nil == [codec |-> "nil"]

fileShardMeta(l, bs, ss) == [link |-> l, byteSize |-> bs, storedSize |-> ss]

ZeroMeta == fileShardMeta(Nil, 0, 0)

totalByteSize(fs) == SumSeq([i \in 1..Len(fs) |-> fs[i].byteSize])

\* the stored sizes summed from the wrong field
totalStoredSize_byteSize(fs) == SumSeq([i \in 1..Len(fs) |-> fs[i].byteSize])

totalStoredSize(fs) == SumSeq([i \in 1..Len(fs) |-> fs[i].storedSize])

\* the block sizes taken from the stored sizes
byteSizes_stored(fs) == [i \in 1..Len(fs) |-> fs[i].storedSize]

byteSizes(fs) == [i \in 1..Len(fs) |-> fs[i].byteSize]

(***************************************************************************)
(* Blocks and their encoded length                                         *)
(***************************************************************************)
\* basicnode.NewBytes(leaf) stored under leafLinkProto: a raw block
NewBytes(leaf) == [codec |-> "raw", body |-> leaf]

\* BuildUnixFS with FileSize and BlockSizes
BuildUnixFS(fileSize, blockSizes) ==
    [dataType |-> "File", fileSize |-> fileSize, blockSizes |-> blockSizes]

BuildUnixFSDirectoryEntry(name, size, hash) ==
    [hash |-> hash, name |-> name, tsize |-> size]

\* the links carry the payload size of the child as Tsize
packFileChildren_byteSize(node, children) ==
    [codec |-> "dag-pb",
     data  |-> node,
     links |-> [i \in 1..Len(children) |->
                  BuildUnixFSDirectoryEntry("", children[i].byteSize,
                                            children[i].link)]]

packFileChildren(node, children) ==
    [codec |-> "dag-pb",
     data  |-> node,
     links |-> [i \in 1..Len(children) |->
                  BuildUnixFSDirectoryEntry("", children[i].storedSize,
                                            children[i].link)]]

CidLen == 36

LinkLen(l) ==
    (1 + VarintLen(CidLen) + CidLen)
    + (IF l.tsize # 0 THEN 1 + VarintLen(l.tsize) ELSE 0)

EncodeUnixFSDataLen(d) ==
    2 + (1 + VarintLen(d.fileSize))
      + SumSeq([i \in 1..Len(d.blockSizes) |-> 1 + VarintLen(d.blockSizes[i])])

EncodedLen(b) ==
    IF b.codec = "raw" THEN Len(b.body)
    ELSE SumSeq([i \in 1..Len(b.links) |->
                    1 + VarintLen(LinkLen(b.links[i])) + LinkLen(b.links[i])])
         + (1 + VarintLen(EncodeUnixFSDataLen(b.data))
              + EncodeUnixFSDataLen(b.data))

\* sizedStore: the link of the stored block and the number of bytes written
sizedStoreLink(b) == b

sizedStoreSize(b) == EncodedLen(b)

(***************************************************************************)
(* State                                                                   *)
(***************************************************************************)
NoResult == [link |-> Nil, size |-> 0, err |-> "none"]

Frame(d, children) == [depth |-> d, children |-> children, eof |-> FALSE]

Init ==
    /\ \E n \in ChunkCounts, p \in Periods : stream = StreamOf(n, p)
    /\ pos = 0
    /\ pulls = 0
    /\ sink = <<>>
    /\ prev = <<>>
    /\ depth = 1
    /\ stack = <<>>
    /\ pc = "loop"
    /\ result = NoResult
    /\ failed = "nil"
    /\ readback = Idle
    /\ hamt = Idle
    /\ dir = Idle
    /\ wide = Idle
    /\ sf = Idle
    /\ reify = Idle
    /\ gen = Idle
    /\ dfn = Idle

(***************************************************************************)
(* The chunker and the sink.  Either may fail at any call.                 *)
(***************************************************************************)
\* what a call of fileTreeRecursive returns (err, meta), what it did to the
\* chunker (consumed) and to the sink (wrote), and the error the chunker or
\* the sink raised during the call (raised)
Outcome(e, raised, m, consumed, wrote) ==
    [err |-> e, raised |-> raised, meta |-> m, consumed |-> consumed,
     wrote |-> wrote]

\* src.NextBytes(): the next chunk, io.EOF once the stream is exhausted, or
\* an error
NextBytes ==
    { [err |-> "chunker", eof |-> FALSE, leaf |-> <<>>] } \cup
    ( IF pos = Len(stream)
        THEN { [err |-> "nil", eof |-> TRUE, leaf |-> <<>>] }
        ELSE { [err |-> "nil", eof |-> FALSE, leaf |-> stream[pos + 1]] } )

\* whether a write to the sink succeeds
StoreOutcomes == {"nil", "sink"}

(***************************************************************************)
(* fileTreeRecursive, depth == 1: the possible results of one leaf call    *)
(***************************************************************************)
\* the link of the leaf is computed but the block is not written
leafStore_noWrite(leaf, se) ==
    LET node == NewBytes(leaf)
    IN  IF se # "nil"
          THEN Outcome(se, se, ZeroMeta, 1, <<>>)
          ELSE Outcome("nil", "nil",
                       fileShardMeta(sizedStoreLink(node), Len(leaf),
                                     sizedStoreSize(node)),
                       1, <<>>)

\* the leaf is stored; se is the error of the sink, "nil" for none
leafStore(leaf, se) ==
    LET node == NewBytes(leaf)
    IN  IF se # "nil"
          THEN Outcome(se, se, ZeroMeta, 1, <<>>)
          ELSE Outcome("nil", "nil",
                       fileShardMeta(sizedStoreLink(node), Len(leaf),
                                     sizedStoreSize(node)),
                       1, <<node>>)

\* every error of the chunker is taken for the end of the stream
leafNext_swallowErr(nb) ==
    IF nb.err # "nil" THEN { Outcome("nil", nb.err, ZeroMeta, 0, <<>>) }
    ELSE IF nb.eof THEN { Outcome("nil", "nil", ZeroMeta, 0, <<>>) }
    ELSE { leafStore(nb.leaf, se) : se \in StoreOutcomes }

\* the chunker answered nb
leafNext(nb) ==
    IF nb.err # "nil" THEN { Outcome(nb.err, nb.err, ZeroMeta, 0, <<>>) }
    ELSE IF nb.eof THEN { Outcome("nil", "nil", ZeroMeta, 0, <<>>) }
    ELSE { leafStore(nb.leaf, se) : se \in StoreOutcomes }

fileTreeLeaf(children) ==
    IF Len(children) > 0
      THEN { Outcome("leaf nodes cannot have children", "nil", ZeroMeta, 0,
                     <<>>) }
      ELSE UNION { leafNext(nb) : nb \in NextBytes }

\* the calls of NextBytes a leaf call makes
LeafPulls(children) == IF Len(children) > 0 THEN 0 ELSE 1

(***************************************************************************)
(* fileTreeRecursive, depth > 1, after the fill loop: the possible results *)
(***************************************************************************)
\* the stored size of the node leaves out the node's own block
packStore_noOwnSize(children, se) ==
    LET node == BuildUnixFS(totalByteSize(children), byteSizes(children))
        pbn  == packFileChildren(node, children)
    IN  IF se # "nil"
          THEN Outcome(se, se, ZeroMeta, 0, <<>>)
          ELSE Outcome("nil", "nil",
                       fileShardMeta(sizedStoreLink(pbn),
                                     totalByteSize(children),
                                     totalStoredSize(children)),
                       0, <<pbn>>)

\* the interior node over children is stored; se is the error of the sink
packStore(children, se) ==
    LET node == BuildUnixFS(totalByteSize(children), byteSizes(children))
        pbn  == packFileChildren(node, children)
    IN  IF se # "nil"
          THEN Outcome(se, se, ZeroMeta, 0, <<>>)
          ELSE Outcome("nil", "nil",
                       fileShardMeta(sizedStoreLink(pbn),
                                     totalByteSize(children),
                                     totalStoredSize(children)
                                       + sizedStoreSize(pbn)),
                       0, <<pbn>>)

\* a single child is dropped like no child
fileTreePack_dropsSingle(children) ==
    IF Len(children) <= 1
      THEN { Outcome("nil", "nil", ZeroMeta, 0, <<>>) }
    ELSE { packStore(children, se) : se \in StoreOutcomes }

fileTreePack(children) ==
    IF Len(children) = 0
      THEN { Outcome("nil", "nil", ZeroMeta, 0, <<>>) }
    ELSE IF Len(children) = 1
      THEN { Outcome("nil", "nil", children[1], 0, <<>>) }
    ELSE { packStore(children, se) : se \in StoreOutcomes }

\* the fill loop runs one iteration too many
CanFill_offByOne(f) == Len(f.children) <= DefaultLinksPerBlock /\ ~f.eof

\* the fill loop stops one link short
CanFill_short(f) == Len(f.children) < DefaultLinksPerBlock - 1 /\ ~f.eof

\* the condition of the fill loop of a frame
CanFill(f) == Len(f.children) < DefaultLinksPerBlock /\ ~f.eof

\* the loop body after the recursive call returned next without error
Filled(f, next) ==
    IF next.link = Nil
      THEN [f EXCEPT !.eof = TRUE]
      ELSE [f EXCEPT !.children = Append(@, next)]

Top == stack[Len(stack)]

Rest == SubSeq(stack, 1, Len(stack) - 1)

\* the first error the chunker or the sink raised
Raised(r) == IF failed = "nil" THEN r ELSE failed

(***************************************************************************)
(* BuildUnixFSFile                                                         *)
(***************************************************************************)
\* an error of fileTreeRecursive reaches BuildUnixFSFile through every
\* frame and is returned with no link and size 0
ReturnErr(e) ==
    /\ result' = [link |-> Nil, size |-> 0, err |-> e]
    /\ stack' = <<>>
    /\ pc' = "done"
    /\ UNCHANGED <<prev, depth>>

\* the zero-chunk return: an empty raw block is stored with ls.Store; se is
\* the error of the sink
storeEmpty(se) ==
    LET node == NewBytes(<<>>)
    IN  IF se # "nil"
          THEN [link |-> Nil, size |-> 0, err |-> se, wrote |-> <<>>]
          ELSE [link |-> node, size |-> 0, err |-> "nil", wrote |-> <<node>>]

\* the loop returns in every round but the first, whatever the link is
LoopTail_returnsAtOnce(next, sk, r) ==
    /\ stack' = <<>>
    /\ IF prev # <<>>
         THEN /\ pc' = "done"
              /\ UNCHANGED <<prev, depth>>
              /\ IF next.link = Nil
                   THEN \E se \in StoreOutcomes :
                          LET st == storeEmpty(se)
                          IN  /\ sink' = sk \o st.wrote
                              /\ failed' = Raised(IF r # "nil" THEN r ELSE se)
                              /\ result' = [link |-> st.link, size |-> st.size,
                                            err |-> st.err]
                   ELSE /\ sink' = sk
                        /\ failed' = Raised(r)
                        /\ result' = [link |-> next.link,
                                      size |-> next.storedSize, err |-> "nil"]
         ELSE /\ prev' = <<next>>
              /\ depth' = depth + 1
              /\ pc' = "loop"
              /\ sink' = sk
              /\ failed' = Raised(r)
              /\ UNCHANGED result

\* the rest of a round of the outer loop once fileTreeRecursive returned
\* next; sk is the sink as the call left it, r what the call saw raised
LoopTail(next, sk, r) ==
    /\ stack' = <<>>
    /\ IF prev # <<>> /\ prev[1].link = next.link
         THEN /\ pc' = "done"
              /\ UNCHANGED <<prev, depth>>
              /\ IF next.link = Nil
                   THEN \E se \in StoreOutcomes :
                          LET st == storeEmpty(se)
                          IN  /\ sink' = sk \o st.wrote
                              /\ failed' = Raised(IF r # "nil" THEN r ELSE se)
                              /\ result' = [link |-> st.link, size |-> st.size,
                                            err |-> st.err]
                   ELSE /\ sink' = sk
                        /\ failed' = Raised(r)
                        /\ result' = [link |-> next.link,
                                      size |-> next.storedSize, err |-> "nil"]
         ELSE /\ prev' = <<next>>
              /\ depth' = depth + 1
              /\ pc' = "loop"
              /\ sink' = sk
              /\ failed' = Raised(r)
              /\ UNCHANGED result

\* a round at depth 1: fileTreeRecursive is the leaf call itself
RoundLeaf ==
    /\ pc = "loop"
    /\ depth = 1
    /\ pulls' = pulls + LeafPulls(prev)
    /\ \E o \in fileTreeLeaf(prev) :
         /\ pos' = pos + o.consumed
         /\ IF o.err # "nil"
              THEN /\ ReturnErr(o.err)
                   /\ sink' = sink \o o.wrote
                   /\ failed' = Raised(o.raised)
              ELSE LoopTail(o.meta, sink \o o.wrote, o.raised)
    /\ UNCHANGED stream
    /\ UNCHANGED <<readback, others>>

\* a round at depth > 1 enters fileTreeRecursive with prev as children
RoundEnter ==
    /\ pc = "loop"
    /\ depth > 1
    /\ stack' = <<Frame(depth, prev)>>
    /\ pc' = "call"
    /\ UNCHANGED <<stream, pos, pulls, sink, prev, depth, result, failed>>
    /\ UNCHANGED <<readback, others>>

\* one iteration of the fill loop of a frame at depth 2: the call at depth 1
FillLeaf ==
    /\ pc = "call"
    /\ Top.depth = 2
    /\ CanFill(Top)
    /\ pulls' = pulls + 1
    /\ \E o \in fileTreeLeaf(<<>>) :
         /\ pos' = pos + o.consumed
         /\ sink' = sink \o o.wrote
         /\ failed' = Raised(o.raised)
         /\ IF o.err # "nil"
              THEN ReturnErr(o.err)
              ELSE /\ stack' = Append(Rest, Filled(Top, o.meta))
                   /\ UNCHANGED <<prev, depth, pc, result>>
    /\ UNCHANGED stream
    /\ UNCHANGED <<readback, others>>

\* one iteration of the fill loop of a frame at depth > 2: the recursive
\* call opens a frame one level down with no children
Descend ==
    /\ pc = "call"
    /\ Top.depth > 2
    /\ CanFill(Top)
    /\ stack' = Append(stack, Frame(Top.depth - 1, <<>>))
    /\ UNCHANGED <<stream, pos, pulls, sink, prev, depth, pc, result, failed>>
    /\ UNCHANGED <<readback, others>>

\* the fill loop of the top frame is over: the frame packs its children and
\* returns to the frame below, or to BuildUnixFSFile
Pack ==
    /\ pc = "call"
    /\ ~CanFill(Top)
    /\ \E o \in fileTreePack(Top.children) :
         IF o.err # "nil"
           THEN /\ ReturnErr(o.err)
                /\ sink' = sink \o o.wrote
                /\ failed' = Raised(o.raised)
           ELSE IF Rest = <<>>
                  THEN LoopTail(o.meta, sink \o o.wrote, o.raised)
                  ELSE /\ stack' = Append(SubSeq(Rest, 1, Len(Rest) - 1),
                                          Filled(Rest[Len(Rest)], o.meta))
                       /\ sink' = sink \o o.wrote
                       /\ failed' = Raised(o.raised)
                       /\ UNCHANGED <<prev, depth, pc, result>>
    /\ UNCHANGED <<stream, pos, pulls>>
    /\ UNCHANGED <<readback, others>>

(***************************************************************************)
(* The file reader (file/file.go): NewUnixFSFile and AsBytes               *)
(***************************************************************************)
\* lsys.Load(link, proto): the node of the block the link addresses.  A
\* DAG-PB block decoded with dagpb.Type.PBNode has links of type PBLink;
\* decoded with basicnode.Prototype.Any its links are plain maps.
Load(lnk, proto) == [block |-> lnk, typed |-> (proto = "PBNode")]

\* NewUnixFSFile: a node of kind bytes is a single-node file, every other
\* node a sharded one
NewUnixFSFile(substrate) ==
    IF substrate.block.codec = "raw"
      THEN [kind |-> "singleNodeFile", substrate |-> substrate]
      ELSE [kind |-> "shardNodeFile", substrate |-> substrate]

\* bytes read before an error, or all bytes of a part followed by the next
ReadThen(a, b) ==
    IF a.err # "nil" THEN a
    ELSE [err |-> b.err, bytes |-> a.bytes \o b.bytes]

\* io.ReadAll over a file: the bytes read and the error that ended the read
RECURSIVE ReadAll(_)
RECURSIVE ReadLinks(_, _, _)
ReadAll(f) ==
    IF f.kind = "singleNodeFile"
      THEN [err |-> "nil", bytes |-> f.substrate.block.body]
    ELSE IF Len(f.substrate.block.links) > 0 /\ ~f.substrate.typed
      THEN [err |-> "unsupported link type", bytes |-> <<>>]
    ELSE ReadLinks(f.substrate.block.links, 1, Len(f.substrate.block.links))

\* the io.MultiReader over the readers of links lo..hi, each target loaded
\* with basicnode.Prototype.Any
ReadLinks(links, lo, hi) ==
    IF lo > hi THEN [err |-> "nil", bytes |-> <<>>]
    ELSE IF lo = hi
      THEN ReadAll(NewUnixFSFile(Load(links[lo].hash, "Any")))
    ELSE LET mid == (lo + hi) \div 2
         IN  ReadThen(ReadLinks(links, lo, mid), ReadLinks(links, mid + 1, hi))

\* the prototype a caller loads the root with: dagpb.Type.PBNode for a
\* DAG-PB root, the bytes prototype for a raw one
RootProto(lnk) == IF lnk.codec = "dag-pb" THEN "PBNode" ELSE "Bytes"

\* the file is read back from the root a successful build returned
ReadBack ==
    /\ pc = "done"
    /\ result.err = "nil"
    /\ readback = Idle
    /\ readback' = [pc |-> "read",
                    out |-> ReadAll(NewUnixFSFile(
                              Load(result.link, RootProto(result.link))))]
    /\ UNCHANGED <<fileVars, others>>

(***************************************************************************)
(* The sharded directory builder: BuildUnixFSShardedDirectory, shard.add,  *)
(* shard.serialize                                                         *)
(***************************************************************************)
\* the longest entry list given to a directory builder
MaxEntries == 3

\* the names of directory entries, as bytes: "", "a", "b", "ab"
EntryNames == { <<>>, <<97>>, <<98>>, <<97, 98>> }

\* the files directory entries point to
EntryTargets == { NewBytes(<<1>>), NewBytes(<<2>>) }

\* the entries a caller made with BuildUnixFSDirectoryEntry
Entries ==
    { BuildUnixFSDirectoryEntry(n, Len(t.body), t) :
        n \in EntryNames, t \in EntryTargets }

EntryLists == UNION { [1..k -> Entries] : k \in 0..MaxEntries }

\* the fanouts and the hashers the builder is called with
Fanouts == {8, 16, 32, 256}

Hashers == {"murmur3-x64-64", "unknown"}

\* multihash.GetHasher: an error for a code that is not registered
GetHasher(hasher) == IF hasher = "unknown" THEN "unknown multihash code" ELSE "nil"

\* the digest of the hasher before any Write: murmur3-x64-64 of no input
EmptySum == <<0, 0, 0, 0, 0, 0, 0, 0>>

\* the length in bytes of a digest of the hasher (64 bits)
DigestLen == Len(EmptySum)

\* h.Sum(b) appends the digest of what was written to h (nothing) to b
Sum(b) == b \o EmptySum

\* the hamtLink of an entry
hamtLink(e) == [hash |-> Sum(e.name), link |-> e]

\* bit i of a byte string, the leftmost bit of the first byte being bit 0
Bit(hb, i) == (hb[(i \div 8) + 1] \div (2 ^ (7 - (i % 8)))) % 2

RECURSIVE SliceBits(_, _, _)
SliceBits(hb, offset, width) ==
    IF width = 0 THEN 0
    ELSE 2 * SliceBits(hb, offset, width - 1) + Bit(hb, offset + width - 1)

\* hashBits.Slice: the width bits from offset as an integer, an error when
\* the hash has not that many bits
Slice(hb, offset, width) ==
    IF offset + width > 8 * Len(hb)
      THEN [err |-> "sharded directory too deep", v |-> 0]
      ELSE [err |-> "nil", v |-> SliceBits(hb, offset, width)]

\* a shard with no children; children maps the buckets in use to entries
newShard(size, d) == [size |-> size, depth |-> d, children |-> <<>>]

linkEntry(lnk) == [shard |-> Nil, hamtLink |-> lnk]

shardEntry(sh) == [shard |-> sh, hamtLink |-> Nil]

\* s.children[bucket] = e
SetChild(s, bucket, e) ==
    [s EXCEPT !.children =
        [b \in (DOMAIN s.children) \cup {bucket} |->
            IF b = bucket THEN e ELSE s.children[b]]]

\* what add returns once the call on the child shard of bucket returned r:
\* the child is changed in place, and the error of the call is returned
addChild(s, bucket, r) ==
    [shard |-> SetChild(s, bucket, shardEntry(r.shard)), err |-> r.err]

\* shard.add: the shard after the call and the error returned.  A shard
\* made for a collision is kept only once the incumbent is in it.
RECURSIVE add(_, _)
RECURSIVE addAt(_, _, _)
add(s, lnk) == addAt(s, lnk, Slice(lnk.hash, s.depth * s.size, s.size))

addAt(s, lnk, bucket) ==
    IF bucket.err # "nil" THEN [shard |-> s, err |-> bucket.err]
    ELSE IF bucket.v \notin DOMAIN s.children
      THEN [shard |-> SetChild(s, bucket.v, linkEntry(lnk)), err |-> "nil"]
    ELSE IF s.children[bucket.v].shard # Nil
      THEN addChild(s, bucket.v, add(s.children[bucket.v].shard, lnk))
    ELSE IF add(newShard(s.size, s.depth + 1),
                s.children[bucket.v].hamtLink).err # "nil"
      THEN [shard |-> s,
            err |-> add(newShard(s.size, s.depth + 1),
                        s.children[bucket.v].hamtLink).err]
    ELSE addChild(s, bucket.v,
                  add(add(newShard(s.size, s.depth + 1),
                          s.children[bucket.v].hamtLink).shard, lnk))

\* fmt.Sprintf("%X", n) as ASCII bytes
HexDigit(d) == IF d < 10 THEN 48 + d ELSE 55 + d

RECURSIVE Hex(_)
Hex(n) == IF n < 16 THEN <<HexDigit(n)>>
          ELSE Hex(n \div 16) \o <<HexDigit(n % 16)>>

\* the width of a shard: len(fmt.Sprintf("%X", size-1))
width(size) == Len(Hex(size - 1))

\* fmt.Sprintf("%*X%s", width, idx, name): the index in hex, padded with
\* spaces on the left up to width, then the name
formatLinkName(s, name, idx) ==
    LET hex == Hex(idx)
        pad == IF Len(hex) >= width(s.size) THEN <<>>
               ELSE [i \in 1..(width(s.size) - Len(hex)) |-> 32]
    IN  pad \o hex \o name

\* the value of byte k of the bitfield: Bitfield.SetBit(i) sets bit i % 8 of
\* byte len - i/8 - 1, counted from 0
RECURSIVE BitfieldByte(_, _, _)
BitfieldByte(s, k, j) ==
    IF j < 0 THEN 0
    ELSE (IF ((s.size \div 8) - k) * 8 + j \in DOMAIN s.children
            THEN 2 ^ j ELSE 0)
         + BitfieldByte(s, k, j - 1)

\* shard.bitmap: only the buckets below size are looked at
bitmap(s) == [k \in 1..(s.size \div 8) |-> BitfieldByte(s, k, 7)]

\* BuildUnixFS with DataType, HashType, Data and Fanout
BuildUnixFSShard(hasher, bm, fanout) ==
    [dataType |-> "HAMTShard", hashType |-> hasher, data |-> bm,
     fanout |-> fanout]

\* the order of two names as byte strings
RECURSIVE NameLess(_, _)
NameLess(a, b) ==
    IF b = <<>> THEN FALSE
    ELSE IF a = <<>> THEN TRUE
    ELSE IF a[1] # b[1] THEN a[1] < b[1]
    ELSE NameLess(Tail(a), Tail(b))

\* the links put in the places rank gives them
Ranked(links, rank) ==
    [k \in 1..Len(links) |-> links[CHOOSE i \in 1..Len(links) : rank[i] = k]]

\* the links in the order they were given
SortStable_none(links) == links

\* sort.Stable by Name: a link stands after the links of smaller name and
\* after the earlier links of the same name
SortStable(links) ==
    Ranked(links,
           [i \in 1..Len(links) |->
              1 + Cardinality({ j \in 1..Len(links) :
                    \/ NameLess(links[j].name, links[i].name)
                    \/ links[j].name = links[i].name /\ j < i })])

\* the buckets in use, ascending
RECURSIVE Ascending(_)
Ascending(S) ==
    IF S = {} THEN <<>>
    ELSE LET m == CHOOSE x \in S : \A y \in S : x <= y
         IN  <<m>> \o Ascending(S \ {m})

Reverse(q) == [i \in 1..Len(q) |-> q[Len(q) + 1 - i]]

\* the orders in which a range over the map s.children may visit it
MapOrders == {"ascending", "descending"}

Range(children, ord) ==
    IF ord = "ascending" THEN Ascending(DOMAIN children)
    ELSE Reverse(Ascending(DOMAIN children))

RECURSIVE Flatten(_)
Flatten(qs) == IF qs = <<>> THEN <<>> ELSE Head(qs) \o Flatten(Tail(qs))

\* the link of the bucket idx of s holding e, and the blocks written for it;
\* c is what serialize returned for the child shard, if e is one
serializeEntry(s, idx, e, c) ==
    IF e.shard # Nil
      THEN [lnk |-> BuildUnixFSDirectoryEntry(formatLinkName(s, <<>>, idx), 0,
                                              c.link),
            wrote |-> c.wrote]
      ELSE [lnk |-> BuildUnixFSDirectoryEntry(
                      formatLinkName(s, e.hamtLink.link.name, idx),
                      e.hamtLink.link.tsize, e.hamtLink.link.hash),
            wrote |-> <<>>]

\* the block of the shard s over the links lnks, in the order the range
\* over s.children made them: the codec sorts the links by name when it
\* encodes the block
shardNode(s, hasher, lnks) ==
    [codec |-> "dag-pb",
     data  |-> BuildUnixFSShard(hasher, bitmap(s), s.size),
     links |-> SortStable(lnks)]

\* the node of the shard is written before the blocks of its child shards
serializeStore_parentFirst(parts, node) ==
    [link |-> node,
     wrote |-> <<node>> \o Flatten([i \in 1..Len(parts) |-> parts[i].wrote])]

\* the link ls.Store returns for the node and the blocks written so far
serializeStore(parts, node) ==
    [link |-> node,
     wrote |-> Flatten([i \in 1..Len(parts) |-> parts[i].wrote]) \o <<node>>]

serializeParts(s, hasher, parts) ==
    serializeStore(parts,
                   shardNode(s, hasher,
                             [i \in 1..Len(parts) |-> parts[i].lnk]))

\* shard.serialize when no write fails: the block of the shard (its link)
\* and the blocks written, in the order of writing
RECURSIVE serialize(_, _, _)
serialize(s, hasher, ord) ==
    serializeParts(s, hasher,
        [i \in 1..Len(Range(s.children, ord)) |->
           serializeEntry(s, Range(s.children, ord)[i],
                          s.children[Range(s.children, ord)[i]],
                          IF s.children[Range(s.children, ord)[i]].shard # Nil
                            THEN serialize(
                                   s.children[Range(s.children, ord)[i]].shard,
                                   hasher, ord)
                            ELSE [link |-> Nil, wrote |-> <<>>])])

\* the file builder is not in use
FileIdle ==
    /\ stream = <<>>
    /\ pos = 0
    /\ pulls = 0
    /\ sink = <<>>
    /\ prev = <<>>
    /\ depth = 1
    /\ stack = <<>>
    /\ pc = "idle"
    /\ result = NoResult
    /\ failed = "nil"
    /\ readback = Idle

\* BuildUnixFSShardedDirectory is called with a fanout, a hasher and entries
InitHamt ==
    /\ FileIdle
    /\ \E size \in Fanouts, hasher \in Hashers, entries \in EntryLists :
         hamt = [pc |-> "start", size |-> size, hasher |-> hasher,
                 entries |-> entries, hamtEntries |-> <<>>, i |-> 1,
                 sharder |-> newShard(size, 0), addErr |-> "nil",
                 sink |-> <<>>, result |-> NoResult]
    /\ dir = Idle
    /\ wide = Idle
    /\ sf = Idle
    /\ reify = Idle
    /\ gen = Idle
    /\ dfn = Idle

\* the hasher is looked up and every entry is hashed
ShardedStart ==
    /\ hamt.pc = "start"
    /\ IF GetHasher(hamt.hasher) # "nil"
         THEN hamt' = [hamt EXCEPT !.pc = "done",
                         !.result = [link |-> Nil, size |-> 0,
                                     err |-> GetHasher(hamt.hasher)]]
         ELSE hamt' = [hamt EXCEPT !.pc = "add",
                         !.hamtEntries = [k \in 1..Len(hamt.entries) |->
                                            hamtLink(hamt.entries[k])]]
    /\ UNCHANGED <<fileVars, readback, dir, wide, sf, reify, gen, dfn>>

\* one iteration of the loop over hamtEntries: the error of add is dropped
ShardedAdd ==
    /\ hamt.pc = "add"
    /\ hamt.i <= Len(hamt.hamtEntries)
    /\ LET r == add(hamt.sharder, hamt.hamtEntries[hamt.i])
       IN  hamt' = [hamt EXCEPT !.sharder = r.shard, !.i = @ + 1,
                      !.addErr = IF @ = "nil" THEN r.err ELSE @]
    /\ UNCHANGED <<fileVars, readback, dir, wide, sf, reify, gen, dfn>>

\* sharder.serialize(ls): w is the write that fails, 0 for none
ShardedSerialize ==
    /\ hamt.pc = "add"
    /\ hamt.i > Len(hamt.hamtEntries)
    /\ \E ord \in MapOrders :
         LET r == serialize(hamt.sharder, hamt.hasher, ord)
         IN  \E w \in 0..Len(r.wrote) :
               hamt' = [hamt EXCEPT !.pc = "done",
                          !.sink = IF w = 0 THEN r.wrote
                                   ELSE SubSeq(r.wrote, 1, w - 1),
                          !.result = IF w = 0
                                       THEN [link |-> r.link, size |-> 0,
                                             err |-> "nil"]
                                       ELSE [link |-> Nil, size |-> 0,
                                             err |-> "sink"]]
    /\ UNCHANGED <<fileVars, readback, dir, wide, sf, reify, gen, dfn>>

NextHamt ==
    \/ ShardedStart
    \/ ShardedAdd
    \/ ShardedSerialize

SpecHamt == InitHamt /\ [][NextHamt]_vars

(***************************************************************************)
(* The plain directory builder and the recursive builder:                  *)
(* BuildUnixFSDirectory, BuildUnixFSRecursive                              *)
(***************************************************************************)
\* how far past DefaultLinksPerBlock the long entry lists go
MaxDirOver == 1

\* the lengths of the long entry lists: around DefaultLinksPerBlock
DirCounts ==
    { DefaultLinksPerBlock + j : j \in (0 - 1)..MaxDirOver }

\* the name of entry k of a long list: two letters, ascending with k
BigName(k) == <<97 + (k \div 26), 97 + (k % 26)>>

\* a long entry list with pairwise distinct names, ascending or descending
BigList(n, ord) ==
    [k \in 1..n |->
       BuildUnixFSDirectoryEntry(
         BigName(IF ord = "ascending" THEN k - 1 ELSE n - k), 1,
         NewBytes(<<1>>))]

DirLists ==
    EntryLists \cup { BigList(n, ord) : n \in DirCounts, ord \in MapOrders }

\* the length check lets every list through
tooMany_never(entries) == FALSE

\* the length check of BuildUnixFSDirectory
tooMany(entries) == Len(entries) > DefaultLinksPerBlock

\* the block of a directory over the entries: BuildUnixFS with the data
\* type Directory, the links sorted with sort.Stable(LinkSlice(entries))
directoryNode(entries) ==
    [codec |-> "dag-pb",
     data  |-> [dataType |-> "Directory"],
     links |-> SortStable(entries)]

\* ls.Store of the node of the directory; se is the error of the sink
directoryStore(node, se) ==
    IF se # "nil"
      THEN [link |-> Nil, err |-> se, wrote |-> <<>>]
      ELSE [link |-> node, err |-> "nil", wrote |-> <<node>>]

\* BuildUnixFSDirectory: the link and the error returned, and the blocks
\* written; se is the error of the sink
BuildUnixFSDirectory(entries, se) ==
    IF tooMany(entries)
      THEN [link |-> Nil,
            err |-> "this builder does support sharded directories",
            wrote |-> <<>>]
      ELSE directoryStore(directoryNode(entries), se)

\* the file system BuildUnixFSRecursive walks: a file of at most one chunk,
\* or a directory whose entries os.ReadDir returns sorted by name
File(content) == [kind |-> "file", content |-> content]

Dir(entries) == [kind |-> "dir", entries |-> entries]

DirEnt(name, node) == [name |-> name, node |-> node]

Files == { File(c) : c \in { <<>>, <<1>>, <<1, 2>> } }

SmallDirs ==
    { Dir(<<>>) }
    \cup { Dir(<<DirEnt(n, f)>>) : n \in { <<97>>, <<98>> }, f \in Files }
    \cup { Dir(<<DirEnt(<<97>>, f), DirEnt(<<98>>, g)>>) : f, g \in Files }

NestedDirs ==
    { Dir(<<DirEnt(<<97>>, d)>>) : d \in SmallDirs }
    \cup { Dir(<<DirEnt(<<97>>, d), DirEnt(<<98>>, f)>>) :
             d \in SmallDirs, f \in Files }

BigDirs ==
    { Dir([k \in 1..n |-> DirEnt(BigName(k - 1), File(<<1>>))]) :
        n \in DirCounts }

Trees == Files \cup SmallDirs \cup NestedDirs \cup BigDirs

\* BuildUnixFSFile on a file of at most one chunk when no write fails: the
\* raw block of the content is the root, its length the size
BuildSmallFile(content) ==
    [link |-> sizedStoreLink(NewBytes(content)),
     size |-> IF content = <<>> THEN 0 ELSE sizedStoreSize(NewBytes(content)),
     err |-> "nil",
     wrote |-> <<NewBytes(content)>>]

\* the loop over the entries of a directory went through a first part and
\* then, if that left no error, through a second
LoopThen(a, b) ==
    IF a.err # "nil" THEN a
    ELSE [lnks |-> a.lnks \o b.lnks, err |-> b.err, wrote |-> a.wrote \o b.wrote]

\* one iteration of the loop: r is what the recursive call returned
LoopEntry(name, r) ==
    IF r.err # "nil" THEN [lnks |-> <<>>, err |-> r.err, wrote |-> r.wrote]
    ELSE [lnks |-> <<BuildUnixFSDirectoryEntry(name, r.size, r.link)>>,
          err |-> "nil", wrote |-> r.wrote]

\* the directory branch after the loop: the size returned is 0
RecursiveDir(loop, d) ==
    IF loop.err # "nil"
      THEN [link |-> Nil, size |-> 0, err |-> loop.err, wrote |-> loop.wrote]
      ELSE [link |-> d.link, size |-> 0, err |-> d.err,
            wrote |-> loop.wrote \o d.wrote]

RecursiveDirOf(loop) ==
    RecursiveDir(loop, BuildUnixFSDirectory(loop.lnks, "nil"))

\* BuildUnixFSRecursive when no write fails: link, size and error returned
\* and the blocks written
RECURSIVE BuildUnixFSRecursive(_)
RECURSIVE RecursiveLoop(_, _, _)
BuildUnixFSRecursive(root) ==
    IF root.kind = "dir"
      THEN RecursiveDirOf(RecursiveLoop(root.entries, 1, Len(root.entries)))
      ELSE BuildSmallFile(root.content)

RecursiveLoop(entries, lo, hi) ==
    IF lo > hi THEN [lnks |-> <<>>, err |-> "nil", wrote |-> <<>>]
    ELSE IF lo = hi
      THEN LoopEntry(entries[lo].name, BuildUnixFSRecursive(entries[lo].node))
    ELSE LoopThen(RecursiveLoop(entries, lo, (lo + hi) \div 2),
                  RecursiveLoop(entries, ((lo + hi) \div 2) + 1, hi))

\* a directory builder is called: BuildUnixFSDirectory with an entry list,
\* or BuildUnixFSRecursive with the root of a file tree
InitDir ==
    /\ FileIdle
    /\ hamt = Idle
    /\ \/ \E entries \in DirLists :
            dir = [pc |-> "call", op |-> "BuildUnixFSDirectory",
                   entries |-> entries, root |-> File(<<>>), sink |-> <<>>,
                   raised |-> "nil", result |-> NoResult]
       \/ \E root \in Trees :
            dir = [pc |-> "call", op |-> "BuildUnixFSRecursive",
                   entries |-> <<>>, root |-> root, sink |-> <<>>,
                   raised |-> "nil", result |-> NoResult]
    /\ wide = Idle
    /\ sf = Idle
    /\ reify = Idle
    /\ gen = Idle
    /\ dfn = Idle

\* the call of BuildUnixFSDirectory returned r; se is the error of the sink
DirectoryEnd(r, se) ==
    dir' = [dir EXCEPT !.pc = "done",
              !.sink = r.wrote,
              !.raised = IF tooMany(dir.entries) THEN "nil" ELSE se,
              !.result = [link |-> r.link, size |-> 0, err |-> r.err]]

\* the call of BuildUnixFSDirectory
Directory ==
    /\ dir.pc = "call"
    /\ dir.op = "BuildUnixFSDirectory"
    /\ \E se \in StoreOutcomes :
         DirectoryEnd(BuildUnixFSDirectory(dir.entries, se), se)
    /\ UNCHANGED <<fileVars, readback, hamt, wide, sf, reify, gen, dfn>>

\* the call of BuildUnixFSRecursive ends once write w failed (0 for none)
RecursiveEnd(r, w) ==
    dir' = [dir EXCEPT !.pc = "done",
              !.sink = IF w = 0 THEN r.wrote ELSE SubSeq(r.wrote, 1, w - 1),
              !.raised = IF w = 0 THEN "nil" ELSE "sink",
              !.result = IF w = 0
                           THEN [link |-> r.link, size |-> r.size,
                                 err |-> r.err]
                           ELSE [link |-> Nil, size |-> 0, err |-> "sink"]]

\* the call of BuildUnixFSRecursive that would return r if no write failed
RecursiveEnds(r) == \E w \in 0..Len(r.wrote) : RecursiveEnd(r, w)

\* the call of BuildUnixFSRecursive
Recursive ==
    /\ dir.pc = "call"
    /\ dir.op = "BuildUnixFSRecursive"
    /\ RecursiveEnds(BuildUnixFSRecursive(dir.root))
    /\ UNCHANGED <<fileVars, readback, hamt, wide, sf, reify, gen, dfn>>

NextDir ==
    \/ Directory
    \/ Recursive

SpecDir == InitDir /\ [][NextDir]_vars

(***************************************************************************)
(* The single-node file (file/file.go): singleNodeFile.Read and Seek       *)
(***************************************************************************)
\* the longest file, the farthest seek, the longest read buffer and the
\* number of calls made on one file
MaxFileLen == 2

MaxSeek == 3

MaxRead == 2

MaxCalls == 4

Whences == {"SeekStart", "SeekCurrent", "SeekEnd"}

\* SeekEnd is taken from the start of the file
seekTo_endFromStart(whence, offset, cur, n) ==
    IF whence = "SeekCurrent" THEN cur + offset ELSE offset

\* the switch of Seek: the value f.offset is set to
seekTo(whence, offset, cur, n) ==
    IF whence = "SeekStart" THEN offset
    ELSE IF whence = "SeekCurrent" THEN cur + offset
    ELSE n + offset

\* copy(p, buf[f.offset:]) with len(p) = plen
copied(plen, cur, n) == IF plen < n - cur THEN plen ELSE n - cur

\* NewUnixFSFile on a node of n bytes: a singleNodeFile at offset 0.
\* position is the position the rules of io.Seeker and io.Reader give,
\* clean whether every call so far returned without error.
InitSeek ==
    /\ FileIdle
    /\ hamt = Idle
    /\ dir = Idle
    /\ wide = Idle
    /\ \E n \in 0..MaxFileLen :
         sf = [pc |-> "open", n |-> n, offset |-> 0, calls |-> 0,
               position |-> 0, clean |-> TRUE,
               ret |-> [op |-> "none", val |-> 0, err |-> "nil"]]
    /\ reify = Idle
    /\ gen = Idle
    /\ dfn = Idle

\* Seek(offset, whence): a negative result is left in f.offset and
\* (0, io.EOF) is returned
SeekTo(offset, whence) ==
    LET to == seekTo(whence, offset, sf.offset, sf.n)
    IN  sf' = [sf EXCEPT !.offset = to, !.calls = @ + 1,
                 !.position = IF whence = "SeekStart" THEN offset
                              ELSE IF whence = "SeekCurrent" THEN @ + offset
                              ELSE sf.n + offset,
                 !.clean = @ /\ to >= 0,
                 !.ret = IF to < 0
                           THEN [op |-> "Seek", val |-> 0, err |-> "EOF"]
                           ELSE [op |-> "Seek", val |-> to, err |-> "nil"]]

Seek ==
    /\ sf.pc = "open"
    /\ sf.calls < MaxCalls
    /\ \E offset \in (0 - MaxSeek)..MaxSeek, whence \in Whences :
         SeekTo(offset, whence)
    /\ UNCHANGED <<fileVars, readback, hamt, dir, wide, reify, gen, dfn>>

\* Read(p) with len(p) = plen at an offset that is not negative: io.EOF at
\* or past the end, else the bytes copied are returned and skipped
ReadInto(plen) ==
    IF sf.offset >= sf.n
      THEN sf' = [sf EXCEPT !.calls = @ + 1, !.clean = FALSE,
                    !.ret = [op |-> "Read", val |-> 0, err |-> "EOF"]]
      ELSE sf' = [sf EXCEPT !.calls = @ + 1,
                    !.offset = @ + copied(plen, sf.offset, sf.n),
                    !.position = @ + copied(plen, sf.offset, sf.n),
                    !.ret = [op |-> "Read",
                             val |-> copied(plen, sf.offset, sf.n),
                             err |-> "nil"]]

Read ==
    /\ sf.pc = "open"
    /\ sf.calls < MaxCalls
    /\ sf.offset >= 0
    /\ \E plen \in 0..MaxRead : ReadInto(plen)
    /\ UNCHANGED <<fileVars, readback, hamt, dir, wide, reify, gen, dfn>>

\* Read after a Seek that left a negative offset: buf[f.offset:] panics
ReadPanic ==
    /\ sf.pc = "open"
    /\ sf.calls < MaxCalls
    /\ sf.offset < 0
    /\ sf' = [sf EXCEPT !.pc = "panic", !.calls = @ + 1, !.clean = FALSE,
                !.ret = [op |-> "Read", val |-> 0,
                         err |-> "slice bounds out of range"]]
    /\ UNCHANGED <<fileVars, readback, hamt, dir, wide, reify, gen, dfn>>

NextSeek ==
    \/ Seek
    \/ Read
    \/ ReadPanic

SpecSeek == InitSeek /\ [][NextSeek]_vars

(***************************************************************************)
(* The sizes of the file builder at their width: fileShardMeta.byteSize    *)
(* and storedSize are uint64, Tsize is int64.  A 64-bit value is kept as   *)
(* four words of 16 bits, the lowest first.                                *)
(***************************************************************************)
\* the most children packed into one node here
MaxWideChildren == 3

Word == 2 ^ 16

Small64(n) == <<n, 0, 0, 0>>

\* a + b + cin word by word: the four words of the sum and the carry out
addCarryFrom(a, b, c1, c2, c3) ==
    [sum |-> << (a[1] + b[1]) % Word, (a[2] + b[2] + c1) % Word,
                (a[3] + b[3] + c2) % Word,
                (a[4] + b[4] + c3) % Word >>,
     carry |-> (a[4] + b[4] + c3) \div Word]

addCarry3(a, b, c1, c2) ==
    addCarryFrom(a, b, c1, c2, (a[3] + b[3] + c2) \div Word)

addCarry2(a, b, c1) == addCarry3(a, b, c1, (a[2] + b[2] + c1) \div Word)

addCarry(a, b) == addCarry2(a, b, (a[1] + b[1]) \div Word)

\* the + of uint64: the carry out of the top word is lost
add64(a, b) == addCarry(a, b).sum

\* total += f over the sizes from index i on, and the carries lost on the
\* way
RECURSIVE total64(_, _, _, _)
total64(sizes, i, total, lost) ==
    IF i > Len(sizes) THEN [total |-> total, lost |-> lost]
    ELSE total64(sizes, i + 1, add64(total, sizes[i]),
                 lost + addCarry(total, sizes[i]).carry)

\* fileShards.totalByteSize and totalStoredSize on uint64
totalByteSize64(fs) ==
    total64([i \in 1..Len(fs) |-> fs[i].byteSize], 1, Small64(0), 0).total

totalStoredSize64(fs) ==
    total64([i \in 1..Len(fs) |-> fs[i].storedSize], 1, Small64(0), 0).total

\* int64(x) of a uint64: the same bits, negative when the top bit is set
int64(x) == [neg |-> x[4] >= Word \div 2, bits |-> x]

\* packFileChildren on children of 64-bit sizes
packFileChildren64(node, children) ==
    [codec |-> "dag-pb",
     data  |-> node,
     links |-> [i \in 1..Len(children) |->
                  BuildUnixFSDirectoryEntry("", int64(children[i].storedSize),
                                            children[i].link)]]

\* the number of bytes of the varint of a 64-bit value
VarintLen64(x) ==
    IF x[4] >= 2 ^ 15 THEN 10
    ELSE IF x[4] >= 2 ^ 8 THEN 9
    ELSE IF x[4] >= 2 THEN 8
    ELSE IF x[4] >= 1 \/ x[3] >= 2 ^ 10 THEN 7
    ELSE IF x[3] >= 2 ^ 3 THEN 6
    ELSE IF x[3] >= 1 \/ x[2] >= 2 ^ 12 THEN 5
    ELSE IF x[2] >= 2 ^ 5 THEN 4
    ELSE IF x[2] >= 1 \/ x[1] >= 2 ^ 14 THEN 3
    ELSE IF x[1] >= 2 ^ 7 THEN 2
    ELSE 1

\* the length of the encoded block of an interior node of 64-bit sizes
EncodedLen64(b) ==
    SumSeq([i \in 1..Len(b.links) |->
              2 + (2 + CidLen) + (1 + VarintLen64(b.links[i].tsize.bits))])
    + 2 + 2 + (1 + VarintLen64(b.data.fileSize))
    + SumSeq([i \in 1..Len(b.data.blockSizes) |->
                1 + VarintLen64(b.data.blockSizes[i])])

\* the encoder of DAG-PB refuses a link whose Tsize is negative
EncodeErr(b) ==
    IF \E i \in 1..Len(b.links) : b.links[i].tsize.neg
      THEN "Link has negative Tsize value" ELSE "nil"

\* sizedStore of the packed node and the meta fileTreeRecursive returns; se
\* is the error of the sink
packStore64(children, pbn, se) ==
    IF EncodeErr(pbn) # "nil"
      THEN [err |-> EncodeErr(pbn), meta |-> ZeroMeta, wrote |-> <<>>]
    ELSE IF se # "nil"
      THEN [err |-> se, meta |-> ZeroMeta, wrote |-> <<>>]
    ELSE [err |-> "nil",
          meta |-> fileShardMeta(sizedStoreLink(pbn),
                                 totalByteSize64(children),
                                 add64(totalStoredSize64(children),
                                       Small64(EncodedLen64(pbn)))),
          wrote |-> <<pbn>>]

\* fileTreeRecursive at depth > 1 over two children or more, after the
\* fill loop
fileTreePack64(children, se) ==
    packStore64(children,
                packFileChildren64(
                  BuildUnixFS(totalByteSize64(children),
                              [i \in 1..Len(children) |->
                                 children[i].byteSize]),
                  children),
                se)

\* the payload sizes of the subtrees packed: 1, 2^62, 7 * 2^60, 2^63 and
\* 2^64 - 2^16
WideSizes ==
    { Small64(1), <<0, 0, 0, 2 ^ 14>>, <<0, 0, 0, 7 * 2 ^ 12>>,
      <<0, 0, 0, 2 ^ 15>>, <<0, Word - 1, Word - 1, Word - 1>> }

\* the bytes the blocks of a subtree take over its payload
WideOverhead == 100

\* the meta of subtree k of payload size b
WideChild(k, b) ==
    fileShardMeta([codec |-> "dag-pb", id |-> k], b,
                  add64(b, Small64(WideOverhead)))

\* fileTreeRecursive holds the metas of two or more subtrees
InitWide ==
    /\ FileIdle
    /\ hamt = Idle
    /\ dir = Idle
    /\ sf = Idle
    /\ \E n \in 2..MaxWideChildren :
         \E sizes \in [1..n -> WideSizes] :
            wide = [pc |-> "pack",
                    children |-> [k \in 1..n |-> WideChild(k, sizes[k])],
                    sink |-> <<>>, result |-> NoResult]
    /\ reify = Idle
    /\ gen = Idle
    /\ dfn = Idle

\* the call packed the children and returned r
PackWideEnd(r) ==
    wide' = [wide EXCEPT !.pc = "done", !.sink = r.wrote,
               !.result = [link |-> r.meta.link, size |-> r.meta.storedSize,
                           err |-> r.err]]

\* the children are packed into a node and the node is stored
PackWide ==
    /\ wide.pc = "pack"
    /\ \E se \in StoreOutcomes : PackWideEnd(fileTreePack64(wide.children, se))
    /\ UNCHANGED <<fileVars, readback, hamt, dir, sf, reify, gen, dfn>>

NextWide == PackWide

SpecWide == InitWide /\ [][NextWide]_vars

(***************************************************************************)
(* Reification (unixfsnode): Reify and ReifyDagPB                          *)
(***************************************************************************)
\* the UnixFS data types and a number that is none of them
Data_Raw == 0

Data_Directory == 1

Data_File == 2

Data_Metadata == 3

Data_Symlink == 4

Data_HAMTShard == 5

DataTypes == 0..6

\* how many nodes of one shape are told apart
MaxNodeIds == 2

\* the nodes given to a reifier: typed says the Go type is dagpb.PBNode,
\* compliant that the node can be assigned to a PBNode builder, hasData that
\* the Data field exists, decodes that Data decodes as UnixFS data of type
\* dataType
ReifyNodes ==
    { n \in [id : 1..MaxNodeIds, typed : BOOLEAN, compliant : BOOLEAN,
             hasData : BOOLEAN, decodes : BOOLEAN, dataType : DataTypes] :
        /\ n.typed => n.compliant
        /\ ~n.compliant => (~n.hasData /\ ~n.decodes /\ n.dataType = 0)
        /\ ~n.hasData => (~n.decodes /\ n.dataType = 0)
        /\ ~n.decodes => n.dataType = 0 }

\* pbb.AssignNode and Build: the PBNode of the same content
asPBNode(n) == [n EXCEPT !.typed = TRUE]

\* defaultReifier: the node with lookup by link name
defaultReifier(substrate) ==
    [node |-> [adl |-> "_PathedPBNode", substrate |-> substrate],
     err |-> "nil"]

\* reifyFuncs[dataType] applied to the substrate
reifyFuncs(dataType, substrate) ==
    IF dataType \in {Data_File, Data_Raw}
      THEN [node |-> [adl |-> "file", substrate |-> substrate], err |-> "nil"]
    ELSE IF dataType = Data_Directory
      THEN [node |-> [adl |-> "directory", substrate |-> substrate],
            err |-> "nil"]
    ELSE IF dataType = Data_HAMTShard
      THEN [node |-> [adl |-> "hamt", substrate |-> substrate], err |-> "nil"]
    ELSE defaultReifier(substrate)

\* Reify once the node is a PBNode
reifyPBNode(pbNode) ==
    IF ~pbNode.hasData THEN defaultReifier(pbNode)
    ELSE IF ~pbNode.decodes THEN defaultReifier(pbNode)
    ELSE IF pbNode.dataType \notin
              {Data_File, Data_Metadata, Data_Raw, Data_Symlink,
               Data_Directory, Data_HAMTShard}
      THEN [node |-> Nil, err |-> "no reification for this UnixFS node type"]
    ELSE reifyFuncs(pbNode.dataType, pbNode)

\* Reify: a node of another type is taken when it has the right structure
Reify(n) ==
    IF ~n.typed /\ ~n.compliant THEN [node |-> n, err |-> "nil"]
    ELSE reifyPBNode(asPBNode(n))

\* every node is given to Reify
ReifyDagPB_lenient(n) == Reify(n)

\* ReifyDagPB: a node that is not of type PBNode is returned as it is
ReifyDagPB(n) ==
    IF ~n.typed THEN [node |-> n, err |-> "nil"] ELSE Reify(n)

NoReified == [node |-> Nil, err |-> "none"]

InitReify ==
    /\ FileIdle
    /\ hamt = Idle
    /\ dir = Idle
    /\ wide = Idle
    /\ sf = Idle
    /\ gen = Idle
    /\ dfn = Idle
    /\ \E n \in ReifyNodes :
         reify = [pc |-> "loaded", node |-> n, strict |-> NoReified,
                  lenient |-> NoReified]

\* a caller reifies the node with ReifyDagPB
CallReifyDagPB ==
    /\ reify.pc = "loaded"
    /\ reify.strict = NoReified
    /\ reify' = [reify EXCEPT !.strict = ReifyDagPB(reify.node)]
    /\ UNCHANGED <<fileVars, readback, hamt, dir, wide, sf, gen, dfn>>

\* a caller reifies the node with Reify
CallReify ==
    /\ reify.pc = "loaded"
    /\ reify.lenient = NoReified
    /\ reify' = [reify EXCEPT !.lenient = Reify(reify.node)]
    /\ UNCHANGED <<fileVars, readback, hamt, dir, wide, sf, gen, dfn>>

NextReify ==
    \/ CallReifyDagPB
    \/ CallReify

SpecReify == InitReify /\ [][NextReify]_vars

(***************************************************************************)
(* Test-data generator (testutil): packDirectory                            *)
(***************************************************************************)
\* the largest bit width given to WithShardBitwidth
MaxBitwidth == 8

\* the most children of a generated directory
MaxGenChildren == 2

\* Go's x << n on an int, for the small values used here
ShiftLeft(x, n) == x * 2^n

\* applyOptions: the options before any Option is applied
applyOptions == [shardBitwidth |-> 0, shardThisDir |-> TRUE]

\* packDirectory: how the directory of the children is built
packDirectory(children, bitWidth) ==
    IF bitWidth > 0
      THEN [builder |-> "BuildUnixFSShardedDirectory",
            width |-> ShiftLeft(2, bitWidth),
            bitWidth |-> bitWidth, children |-> children]
      ELSE [builder |-> "BuildUnixFSDirectory", width |-> 0,
            bitWidth |-> bitWidth, children |-> children]

NoPacked == [builder |-> "none"]

InitGen ==
    /\ FileIdle
    /\ hamt = Idle
    /\ dir = Idle
    /\ wide = Idle
    /\ sf = Idle
    /\ reify = Idle
    /\ dfn = Idle
    /\ \E n \in 0..MaxGenChildren :
         gen = [pc |-> "options", o |-> applyOptions, children |-> n,
                packed |-> NoPacked]

\* WithShardBitwidth(bitwidth) applied to the options
WithShardBitwidth ==
    /\ gen.pc = "options"
    /\ \E bitwidth \in 0..MaxBitwidth :
         gen' = [gen EXCEPT !.o.shardBitwidth = bitwidth]
    /\ UNCHANGED <<fileVars, readback, hamt, dir, wide, sf, reify, dfn>>

\* shardThisDir(b) applied to the options
shardThisDir ==
    /\ gen.pc = "options"
    /\ \E b \in BOOLEAN : gen' = [gen EXCEPT !.o.shardThisDir = b]
    /\ UNCHANGED <<fileVars, readback, hamt, dir, wide, sf, reify, dfn>>

\* the end of UnixFSDirectory: the children are packed
UnixFSDirectory ==
    /\ gen.pc = "options"
    /\ LET shardBitwidth ==
             IF gen.o.shardThisDir THEN gen.o.shardBitwidth ELSE 0
       IN gen' = [gen EXCEPT !.pc = "packed",
                    !.packed = packDirectory(gen.children, shardBitwidth)]
    /\ UNCHANGED <<fileVars, readback, hamt, dir, wide, sf, reify, dfn>>

\* BuildDirectory(children, sharded)
BuildDirectory ==
    /\ gen.pc = "options"
    /\ \E sharded \in BOOLEAN :
         LET bitWidth == IF sharded THEN 4 ELSE 0
         IN gen' = [gen EXCEPT !.pc = "packed",
                      !.packed = packDirectory(gen.children, bitWidth)]
    /\ UNCHANGED <<fileVars, readback, hamt, dir, wide, sf, reify, dfn>>

NextGen ==
    \/ WithShardBitwidth
    \/ shardThisDir
    \/ UnixFSDirectory
    \/ BuildDirectory

SpecGen == InitGen /\ [][NextGen]_vars

(***************************************************************************)
(* The deferred file node (file): newDeferredFileNode, resolve, deferred   *)
(***************************************************************************)
\* the most calls made on one deferred file node
MaxDeferredCalls == 5

\* newDeferredFileNode: the embedded node is the deferred one
newDeferredFileNode ==
    [StreamableByteNode |-> "deferred", root |-> "root", l |-> "lsys",
     ctx |-> "ctx"]

\* what a resolve meets: the load and NewUnixFSFile succeed, the load
\* fails, or NewUnixFSFile fails on the node loaded
ResolveOutcomes == {"nil", "load", "NewUnixFSFile"}

\* the file node is not put in the place of the deferred one
resolve_notInstalled(d, outcome) ==
    IF outcome # "nil" THEN [d |-> d, err |-> outcome]
    ELSE [d |-> [d EXCEPT !.root = "nil", !.l = "nil", !.ctx = "nil"],
          err |-> "nil"]

\* deferredFileNode.resolve: the node after the call and the error returned
resolve(d, outcome) ==
    IF outcome # "nil" THEN [d |-> d, err |-> outcome]
    ELSE [d |-> [StreamableByteNode |-> "file", root |-> "nil", l |-> "nil",
                 ctx |-> "nil"],
          err |-> "nil"]

NoReturn == [op |-> "none", val |-> "none", err |-> "nil"]

InitDeferred ==
    /\ FileIdle
    /\ hamt = Idle
    /\ dir = Idle
    /\ wide = Idle
    /\ sf = Idle
    /\ reify = Idle
    /\ gen = Idle
    /\ dfn = [pc |-> "open", d |-> newDeferredFileNode, calls |-> 0,
              resolved |-> 0, failed |-> 0, ret |-> NoReturn]

\* a call of the method op on the node d: it goes to the node embedded at
\* the time.  The deferred one runs resolve, which panics on a nil link
\* system, returns onErr with the error of resolve, and else calls the same
\* method of the file node.  The possible results: the node after the
\* call, what is returned, and what resolve did
deferredCall(d, op, onErr) ==
    IF d.StreamableByteNode = "file"
      THEN { [d |-> d, resolve |-> "none",
              ret |-> [op |-> op, val |-> "file", err |-> "nil"]] }
    ELSE IF d.l = "nil"
      THEN { [d |-> d, resolve |-> "panic",
              ret |-> [op |-> op, val |-> "none",
                       err |-> "nil pointer dereference"]] }
    ELSE { IF resolve(d, outcome).err # "nil"
             THEN [d |-> resolve(d, outcome).d, resolve |-> "failed",
                   ret |-> [op |-> op, val |-> onErr,
                            err |-> resolve(d, outcome).err]]
             ELSE [d |-> resolve(d, outcome).d, resolve |-> "resolved",
                   ret |-> [op |-> op,
                            val |-> resolve(d, outcome).d.StreamableByteNode,
                            err |-> "nil"]]
           : outcome \in ResolveOutcomes }

\* the node once a call returned c
Called(c) ==
    dfn' = [dfn EXCEPT !.d = c.d, !.calls = @ + 1, !.ret = c.ret,
              !.pc = IF c.resolve = "panic" THEN "panic" ELSE @,
              !.resolved = IF c.resolve = "resolved" THEN @ + 1 ELSE @,
              !.failed = IF c.resolve = "failed" THEN @ + 1 ELSE @]

DeferredAsLargeBytes ==
    /\ dfn.pc = "open"
    /\ dfn.calls < MaxDeferredCalls
    /\ \E c \in deferredCall(dfn.d, "AsLargeBytes", "nil") : Called(c)
    /\ UNCHANGED <<fileVars, readback, hamt, dir, wide, sf, reify, gen>>

DeferredRead ==
    /\ dfn.pc = "open"
    /\ dfn.calls < MaxDeferredCalls
    /\ \E c \in deferredCall(dfn.d, "Read", "0") : Called(c)
    /\ UNCHANGED <<fileVars, readback, hamt, dir, wide, sf, reify, gen>>

DeferredSeek ==
    /\ dfn.pc = "open"
    /\ dfn.calls < MaxDeferredCalls
    /\ \E c \in deferredCall(dfn.d, "Seek", "0") : Called(c)
    /\ UNCHANGED <<fileVars, readback, hamt, dir, wide, sf, reify, gen>>

DeferredAsBytes ==
    /\ dfn.pc = "open"
    /\ dfn.calls < MaxDeferredCalls
    /\ \E c \in deferredCall(dfn.d, "AsBytes", "empty") : Called(c)
    /\ UNCHANGED <<fileVars, readback, hamt, dir, wide, sf, reify, gen>>

DeferredIsNull ==
    /\ dfn.pc = "open"
    /\ dfn.calls < MaxDeferredCalls
    /\ \E c \in deferredCall(dfn.d, "IsNull", "true") : Called(c)
    /\ UNCHANGED <<fileVars, readback, hamt, dir, wide, sf, reify, gen>>

NextDeferred ==
    \/ DeferredAsLargeBytes
    \/ DeferredRead
    \/ DeferredSeek
    \/ DeferredAsBytes
    \/ DeferredIsNull

SpecDeferred == InitDeferred /\ [][NextDeferred]_vars

Next ==
    \/ RoundLeaf
    \/ RoundEnter
    \/ FillLeaf
    \/ Descend
    \/ Pack
    \/ ReadBack

Spec == Init /\ [][Next]_vars

\* Pack can be taken: the fill loop of the top frame is over.  Every
\* outcome of fileTreePack gives a step, and the step changes stack or pc
PackEnabled == pc = "call" /\ ~CanFill(Top)

\* WF_vars(Pack), with ENABLED <<Pack>>_vars written out as PackEnabled
FairPack == []<>~PackEnabled \/ []<><<Pack>>_vars

\* BuildUnixFSFile runs on: the call is one thread of control that takes its
\* next step whenever it has one
SpecLive ==
    /\ Spec
    /\ WF_vars(RoundLeaf)
    /\ WF_vars(RoundEnter)
    /\ WF_vars(FillLeaf)
    /\ WF_vars(Descend)
    /\ FairPack

(***************************************************************************)
(* Both builders that write a tree of blocks: a run is a file build or a   *)
(* sharded directory build                                                 *)
(***************************************************************************)
InitBuilds == Init \/ InitHamt

NextBuilds == Next \/ NextHamt

SpecBuilds == InitBuilds /\ [][NextBuilds]_vars

(***************************************************************************)
(* Properties                                                              *)
(***************************************************************************)
\* the blocks written so far, and the interior nodes among them
Blocks == { sink[i] : i \in 1..Len(sink) }

Interior == { b \in Blocks : b.codec = "dag-pb" }

\* BuildUnixFSFile returned without error
Done == pc = "done" /\ result.err = "nil"

\* the bytes written to the sink, every write counted
WrittenBytes == SumSeq([i \in 1..Len(sink) |-> EncodedLen(sink[i])])

\* the bytes a content-addressed sink holds: one block per CID
BagBytes ==
    SumSeq([i \in 1..Len(sink) |->
              IF \E j \in 1..(i - 1) : sink[j] = sink[i]
                THEN 0 ELSE EncodedLen(sink[i])])

DistinctChunks ==
    \A i, j \in 1..Len(stream) : i # j => stream[i] # stream[j]

\* the payload bytes under a block
RECURSIVE Payload(_)
Payload(b) ==
    IF b.codec = "raw" THEN Len(b.body)
    ELSE SumSeq([i \in 1..Len(b.links) |-> Payload(b.links[i].hash)])

StreamLen == SumSeq([i \in 1..Len(stream) |-> Len(stream[i])])

\* C1: the size a successful BuildUnixFSFile returns is the sum of the
\* lengths of all blocks written to the sink during the build, each write
\* counted once.
C1_StoredSizeIdentity == Done => result.size = WrittenBytes

C1_Witness ==
    /\ Done
    /\ Len(sink) > DefaultLinksPerBlock + 2
    /\ Cardinality(Interior) >= 2
    /\ result.size = WrittenBytes

\* C2 as stated: into an empty content-addressed sink, the returned size is
\* the total length of the blocks the sink holds, for every stream, also one
\* in which a chunk occurs more than once.
C2_Original == Done => result.size = BagBytes

\* C2 amended: the returned size is the total length of the blocks the sink
\* holds when the chunks of the stream are pairwise distinct; with repeated
\* chunks it is never below that total.
C2_DistinctChunksBag ==
    Done => /\ result.size >= BagBytes
            /\ DistinctChunks => result.size = BagBytes

C2_Witness ==
    /\ Done
    /\ DistinctChunks
    /\ Len(stream) > DefaultLinksPerBlock
    /\ result.size = BagBytes

\* C3: every link of an interior node has Tsize equal to the stored size of
\* the subtree it points to: the length of the raw block for a leaf, the
\* length of the encoded block plus the Tsize of its links for an interior
\* child.
C3_TsizeCumulative ==
    \A b \in Interior : \A i \in 1..Len(b.links) :
        LET c == b.links[i].hash
        IN  b.links[i].tsize =
              IF c.codec = "raw" THEN Len(c.body)
              ELSE EncodedLen(c)
                     + SumSeq([k \in 1..Len(c.links) |-> c.links[k].tsize])

C3_Witness ==
    \E b \in Interior : \E i, j \in 1..Len(b.links) :
        /\ b.links[i].hash.codec = "dag-pb"
        /\ b.links[j].hash.codec = "raw"
        /\ b.links[i].tsize > EncodedLen(b.links[i].hash)

\* C4: every interior node has FileSize equal to the payload bytes of its
\* subtree and BlockSizes listing the payload bytes of each child in link
\* order; an interior root has FileSize equal to the length of the stream.
C4_FileSizeIdentity ==
    /\ \A b \in Interior :
         /\ b.data.fileSize = Payload(b)
         /\ Len(b.data.blockSizes) = Len(b.links)
         /\ \A i \in 1..Len(b.links) :
              b.data.blockSizes[i] = Payload(b.links[i].hash)
    /\ (Done /\ result.link.codec = "dag-pb")
         => result.link.data.fileSize = StreamLen

C4_Witness ==
    /\ Done
    /\ result.link.codec = "dag-pb"
    /\ \E i \in 1..Len(result.link.links) :
         result.link.links[i].hash.codec = "dag-pb"
    /\ result.link.data.fileSize = StreamLen

\* C5: every interior node written has at least 2 and at most
\* DefaultLinksPerBlock links.
C5_FanoutBound ==
    \A b \in Interior :
        Len(b.links) >= 2 /\ Len(b.links) <= DefaultLinksPerBlock

C5_Witness ==
    /\ \E b \in Interior : Len(b.links) = DefaultLinksPerBlock
    /\ \E b \in Interior : Len(b.links) = 2

\* the distances from block b down to the raw leaves under it
RECURSIVE LeafDepths(_)
LeafDepths(b) ==
    IF b.codec = "raw" THEN {0}
    ELSE UNION { { d + 1 : d \in LeafDepths(b.links[i].hash) }
                 : i \in 1..Len(b.links) }

\* C6 as stated: the tree is balanced, all raw leaves lie at the same
\* distance from the root.
C6_Balanced == Done => Cardinality(LeafDepths(result.link)) = 1

\* the bytes of the stream: the chunks s[lo..hi] one after the other
RECURSIVE ConcatRange(_, _, _)
ConcatRange(s, lo, hi) ==
    IF lo > hi THEN <<>>
    ELSE IF lo = hi THEN s[lo]
    ELSE LET mid == (lo + hi) \div 2
         IN  ConcatRange(s, lo, mid) \o ConcatRange(s, mid + 1, hi)

StreamBytes == ConcatRange(stream, 1, Len(stream))

\* C7: for a stream of at most one chunk the build writes exactly one block,
\* a raw block holding the whole stream, returns it as the root, writes no
\* dag-pb block and returns the stream length as the stored size.
C7_AtMostOneChunk ==
    (Done /\ Len(stream) <= 1) =>
        /\ sink = << [codec |-> "raw", body |-> StreamBytes] >>
        /\ result.link = sink[1]
        /\ result.size = Len(StreamBytes)
        /\ Interior = {}

C7_Witness ==
    /\ Done
    /\ Len(stream) = 0
    /\ sink = << [codec |-> "raw", body |-> <<>>] >>
    /\ result.link = sink[1]
    /\ result.size = 0

\* C8: DefaultLinksPerBlock chunks give one interior node, the root, with
\* DefaultLinksPerBlock leaf links; one chunk more gives a root with more
\* than one link that sits above that full interior node.
C8_FanoutBoundary ==
    /\ (Done /\ Len(stream) = DefaultLinksPerBlock) =>
         /\ result.link.codec = "dag-pb"
         /\ Len(result.link.links) = DefaultLinksPerBlock
         /\ \A i \in 1..Len(result.link.links) :
              result.link.links[i].hash.codec = "raw"
         /\ Interior = {result.link}
         /\ Len(sink) = DefaultLinksPerBlock + 1
    /\ (Done /\ Len(stream) = DefaultLinksPerBlock + 1) =>
         /\ result.link.codec = "dag-pb"
         /\ Len(result.link.links) > 1
         /\ \E i \in 1..Len(result.link.links) :
              /\ result.link.links[i].hash.codec = "dag-pb"
              /\ Len(result.link.links[i].hash.links) = DefaultLinksPerBlock
         /\ Cardinality(Interior) > 1

C8_Witness ==
    /\ Done
    /\ Len(stream) = DefaultLinksPerBlock + 1
    /\ result.link.codec = "dag-pb"
    /\ Len(result.link.links) = 2
    /\ result.link.links[1].hash.codec = "dag-pb"

\* the blocks reachable from block b through links
RECURSIVE Reachable(_)
Reachable(b) ==
    {b} \cup
    ( IF b.codec = "raw" THEN {}
      ELSE UNION { Reachable(b.links[i].hash) : i \in 1..Len(b.links) } )

\* C9: after a successful build the blocks written are exactly the blocks
\* reachable from the returned root.
C9_WrittenIsClosure == Done => Blocks = Reachable(result.link)

C9_Witness ==
    /\ Done
    /\ Cardinality(Blocks) > DefaultLinksPerBlock + 2
    /\ Blocks = Reachable(result.link)

C11_RoundTrip ==
    readback.pc = "read" =>
        readback.out = [err |-> "nil", bytes |-> StreamBytes]

\* the round trip of the files whose tree has one interior level at most
C11_RoundTripOneLevel ==
    (readback.pc = "read" /\ Len(stream) <= DefaultLinksPerBlock) =>
        readback.out = [err |-> "nil", bytes |-> StreamBytes]

\* the sharder after the loop over the hashed entries from index i on
RECURSIVE AddAll(_, _, _)
AddAll(s, hs, i) ==
    IF i > Len(hs) THEN s ELSE AddAll(add(s, hs[i]).shard, hs, i + 1)

\* the root BuildUnixFSShardedDirectory returns for entries when no write
\* fails
ShardedRoot(size, hasher, entries) ==
    serialize(AddAll(newShard(size, 0),
                     [k \in 1..Len(entries) |-> hamtLink(entries[k])], 1),
              hasher, "ascending").link

\* the entry lists that are permutations of entries
PermutationsOf(entries) ==
    { [k \in 1..Len(entries) |-> entries[f[k]]] :
        f \in Permutations(1..Len(entries)) }

HamtDone == hamt.pc = "done" /\ hamt.result.err = "nil"

\* C12: the root returned for an entry list is the root every permutation
\* of the list is given, lists with two entries of one name included
C12_OrderIndependent ==
    HamtDone =>
        \A q \in PermutationsOf(hamt.entries) :
            ShardedRoot(hamt.size, hamt.hasher, q) = hamt.result.link

\* the order independence of the lists whose names are pairwise distinct
\* and all placed
C12_DistinctNames ==
    (HamtDone /\ hamt.addErr = "nil") =>
        \A q \in PermutationsOf(hamt.entries) :
            ShardedRoot(hamt.size, hamt.hasher, q) = hamt.result.link

\* the links of the entries under a shard block, child shards followed
RECURSIVE LeafLinks(_)
LeafLinks(b) ==
    Flatten([k \in 1..Len(b.links) |->
               IF b.links[k].tsize = 0 /\ b.links[k].hash.codec = "dag-pb"
                 THEN LeafLinks(b.links[k].hash)
                 ELSE <<b.links[k]>>])

\* the link l stands for the entry e: the name of e after the hex prefix
IsEntry(l, e) ==
    /\ l.hash = e.hash
    /\ l.tsize = e.tsize
    /\ Len(l.name) >= Len(e.name)
    /\ SubSeq(l.name, Len(l.name) - Len(e.name) + 1, Len(l.name)) = e.name

\* C13: a root is returned only for a trie that holds every entry given:
\* when an entry could not be placed the build returns an error and no root
C13_NoEntryLost ==
    HamtDone =>
        /\ hamt.addErr = "nil"
        /\ Len(LeafLinks(hamt.result.link)) = Len(hamt.entries)
        /\ \A k \in 1..Len(hamt.entries) :
              \E m \in 1..Len(LeafLinks(hamt.result.link)) :
                 IsEntry(LeafLinks(hamt.result.link)[m], hamt.entries[k])

\* BuildUnixFSDirectory returned
DirectoryDone == dir.pc = "done" /\ dir.op = "BuildUnixFSDirectory"

\* BuildUnixFSRecursive returned
RecursiveDone == dir.pc = "done" /\ dir.op = "BuildUnixFSRecursive"

DistinctNames(entries) ==
    \A i, j \in 1..Len(entries) : i # j => entries[i].name # entries[j].name

\* C15: for every number of entries of pairwise distinct names
\* BuildUnixFSDirectory succeeds when the sink takes every write, and the
\* directory block under the returned link has as many links as entries
\* were given
C15_AnyNumberOfEntries ==
    (DirectoryDone /\ DistinctNames(dir.entries) /\ dir.raised = "nil") =>
        /\ dir.result.err = "nil"
        /\ Len(dir.result.link.links) = Len(dir.entries)

NamedLinkLen(l) ==
    LinkLen(l) + (1 + VarintLen(Len(l.name)) + Len(l.name))

DirectoryLen(b) ==
    SumSeq([i \in 1..Len(b.links) |->
              1 + VarintLen(NamedLinkLen(b.links[i])) + NamedLinkLen(b.links[i])])
    + (1 + VarintLen(2) + 2)

BlockLen(b) == IF b.codec = "raw" THEN Len(b.body) ELSE DirectoryLen(b)

\* the blocks of the DAG under a block
RECURSIVE DagBlocks(_)
DagBlocks(b) ==
    IF b.codec = "raw" THEN {b}
    ELSE {b} \cup UNION { DagBlocks(b.links[i].hash) : i \in 1..Len(b.links) }

RECURSIVE SumLen(_)
SumLen(S) ==
    IF S = {} THEN 0
    ELSE LET b == CHOOSE x \in S : TRUE IN BlockLen(b) + SumLen(S \ {b})

\* C17: the size a directory build returns is the total length of the
\* blocks of the DAG under the returned root
C17_DirectorySize ==
    (RecursiveDone /\ dir.root.kind = "dir" /\ dir.result.err = "nil") =>
        dir.result.size = SumLen(DagBlocks(dir.result.link))

\* C18: BuildUnixFSRecursive does not fail because of the number of entries
\* of a directory: it succeeds whenever the sink takes every write
C18_AnyEntryCount ==
    (RecursiveDone /\ dir.raised = "nil") => dir.result.err = "nil"

\* C20: as long as every Seek and Read on a single-node file returned
\* without error, a Seek returns the position the rules give (SeekStart:
\* offset, SeekCurrent: position + offset, SeekEnd: n + offset), a Read of k
\* bytes moves it by k, and Seek(0, SeekCurrent) would report that position
C20_SeekPosition ==
    sf.pc # "idle" /\ sf.clean =>
        /\ seekTo("SeekCurrent", 0, sf.offset, sf.n) = sf.position
        /\ sf.ret.op = "Seek" => sf.ret.val = sf.position

C20_Witness ==
    /\ sf.pc = "open"
    /\ sf.clean
    /\ sf.calls >= 3
    /\ sf.ret.op = "Seek"
    /\ sf.ret.val = sf.n - 1
    /\ sf.position = 1

\* the carries lost when the payload sizes, and the stored sizes with the
\* length of the new block, are summed
LostByteSize ==
    total64([i \in 1..Len(wide.children) |-> wide.children[i].byteSize], 1,
            Small64(0), 0).lost

LostStoredSize ==
    total64([i \in 1..Len(wide.children) |-> wide.children[i].storedSize]
              \o <<Small64(EncodedLen64(wide.result.link))>>, 1,
            Small64(0), 0).lost

\* C19: a build that returns no error has emitted no size that wrapped:
\* the sums of the payload sizes and of the stored sizes stayed within 64
\* bits and every stored size fits the signed 64-bit Tsize
C19_NoWrappedSize ==
    (wide.pc = "done" /\ wide.result.err = "nil") =>
        /\ LostByteSize = 0
        /\ LostStoredSize = 0
        /\ \A i \in 1..Len(wide.result.link.links) :
              ~wide.result.link.links[i].tsize.neg

\* the sizes that do not overflow are summed as they are
C19_SmallSizes ==
    (wide.pc = "done" /\ wide.result.err = "nil" /\ LostByteSize = 0
       /\ \A i \in 1..Len(wide.children) :
             wide.children[i].byteSize = Small64(1)) =>
        wide.result.link.data.fileSize = Small64(Len(wide.children))

\* C21: ReifyDagPB returns a node that is not of type PBNode as it is and
\* without error, and gives a PBNode the result of Reify
C21_ReifyDagPBStrict ==
    (reify.pc = "loaded" /\ reify.strict # NoReified) =>
        /\ ~reify.node.typed =>
              reify.strict = [node |-> reify.node, err |-> "nil"]
        /\ (reify.node.typed /\ reify.lenient # NoReified) =>
              reify.strict = reify.lenient

C21_Witness ==
    /\ reify.pc = "loaded"
    /\ ~reify.node.typed
    /\ reify.node.compliant
    /\ reify.node.decodes
    /\ reify.node.dataType = Data_File
    /\ reify.strict = [node |-> reify.node, err |-> "nil"]
    /\ reify.lenient.node # reify.node

\* C22: a directory packed by the generator with a shard bit width b is a
\* HAMT of fanout exactly 2^b
C22_FanoutOfBitwidth ==
    (gen.pc = "packed" /\ gen.packed.builder = "BuildUnixFSShardedDirectory")
        => gen.packed.width = 2^gen.packed.bitWidth

\* the blocks a build wrote to its sink so far: of the file build, or of the
\* sharded directory build
Written(fileSink, h) ==
    IF h = Idle THEN fileSink ELSE h.sink

\* whether the block a link addresses is one the build makes itself: every
\* link of a file node, and the links to child shards of a shard (the
\* entries of a directory are stored by the caller beforehand)
OwnLink(h, l) == h = Idle \/ l.hash.codec = "dag-pb"

\* the block written as number i of the sink sk links only to blocks of the
\* build that stand before it in sk
LinksWritten(sk, i, h) ==
    sk[i].codec = "dag-pb" =>
        \A k \in 1..Len(sk[i].links) :
            OwnLink(h, sk[i].links[k]) =>
                \E j \in 1..(i - 1) : sk[j] = sk[i].links[k].hash

\* C23: blocks are written in post-order: when a block is written to the
\* sink, every block of the same build it links to has been written before
C23_PostOrder ==
    [][\A i \in (Len(Written(sink, hamt)) + 1)..Len(Written(sink', hamt')) :
          LinksWritten(Written(sink', hamt'), i, hamt')]_vars

\* a file build wrote an interior node after its leaves
C23_Witness ==
    /\ pc = "done"
    /\ result.err = "nil"
    /\ Len(sink) > 2
    /\ sink[Len(sink)].codec = "dag-pb"
    /\ Len(sink[Len(sink)].links) > 1

\* a sharded directory build wrote a child shard and then its parent
C23_WitnessHamt ==
    /\ hamt # Idle
    /\ hamt.pc = "done"
    /\ Len(hamt.sink) > 1
    /\ \E k \in 1..Len(hamt.sink[Len(hamt.sink)].links) :
         hamt.sink[Len(hamt.sink)].links[k].hash.codec = "dag-pb"

\* C24: the bit string that places an entry is the hasher's digest of the
\* entry's name: it is a digest, DigestLen bytes long, and holds the bytes
\* of the name only through the hasher, so it is not the name itself
\* followed by the digest of no input
C24_PlacedByDigest ==
    (hamt # Idle /\ hamt.pc \in {"add", "done"}) =>
        \A k \in 1..Len(hamt.hamtEntries) :
            /\ Len(hamt.hamtEntries[k].hash) = DigestLen
            /\ hamt.hamtEntries[k].hash # hamt.hamtEntries[k].link.name \o EmptySum

\* the number of bits of a bucket index of a shard of fanout n, a power of 2
RECURSIVE Log2(_)
Log2(n) == IF n <= 1 THEN 0 ELSE 1 + Log2(n \div 2)

\* the bucket b of the shard s is an index of the fanout, and the entry in
\* it, if it is one, has the bits of b at the depth of s
BucketOf(s, b) ==
    /\ b \in 0..(s.size - 1)
    /\ s.children[b].shard = Nil =>
         /\ (s.depth + 1) * Log2(s.size) <= 8 * Len(s.children[b].hamtLink.hash)
         /\ b = SliceBits(s.children[b].hamtLink.hash,
                          s.depth * Log2(s.size), Log2(s.size))

RECURSIVE BucketsOf(_)
BucketsOf(s) ==
    \A b \in DOMAIN s.children :
        /\ BucketOf(s, b)
        /\ s.children[b].shard # Nil => BucketsOf(s.children[b].shard)

\* C25: in a HAMT of fanout F the bucket of an entry in a shard at depth d
\* is the value of the log2(F) bits of its hash from bit d * log2(F), and so
\* lies in 0..F-1
C25_BucketIndex ==
    (hamt # Idle /\ hamt.pc \in {"add", "done"}) => BucketsOf(hamt.sharder)

\* the ASCII codes of the uppercase hexadecimal digits
HexDigits == (48..57) \cup (65..70)

\* the name of the link l of a written shard of fanout size: width(size)
\* hexadecimal digits, then nothing if l is the link of a child shard, and
\* the name of an entry of that target if not
PrefixedName(l, size) ==
    /\ Len(l.name) >= width(size)
    /\ \A i \in 1..width(size) : l.name[i] \in HexDigits
    /\ IF l.hash.codec = "dag-pb"
         THEN Len(l.name) = width(size)
         ELSE \E k \in 1..Len(hamt.entries) :
                /\ hamt.entries[k].hash = l.hash
                /\ hamt.entries[k].name =
                     SubSeq(l.name, width(size) + 1, Len(l.name))

\* C26: every link name of a serialized shard is the bucket index in
\* uppercase hexadecimal, padded with zeros on the left to the width of the
\* shard, followed by the entry's name for an entry and by nothing for a
\* child shard
C26_LinkNames ==
    (hamt # Idle /\ hamt.pc = "done") =>
        \A i \in 1..Len(hamt.sink) :
            \A k \in 1..Len(hamt.sink[i].links) :
                PrefixedName(hamt.sink[i].links[k], hamt.size)

\* whether bit i of the bitfield bm is set: bit i % 8 of the byte i \div 8
\* from the end
BitSet(bm, i) == (bm[Len(bm) - (i \div 8)] \div (2 ^ (i % 8))) % 2 = 1

SetBits(bm) == Cardinality({ i \in 0..(8 * Len(bm) - 1) : BitSet(bm, i) })

\* the bitmap of the shard s and of every shard below it has the bit of a
\* bucket set exactly if the bucket is in use
RECURSIVE BitmapOf(_)
BitmapOf(s) ==
    /\ \A i \in 0..(s.size - 1) : BitSet(bitmap(s), i) <=> i \in DOMAIN s.children
    /\ \A b \in DOMAIN s.children :
         s.children[b].shard # Nil => BitmapOf(s.children[b].shard)

\* C27: the bitmap of every serialized shard of fanout F has exactly F bits,
\* bit i is set if and only if bucket i is not empty, and the shard has as
\* many links as the bitmap has bits set
C27_Bitmap ==
    (hamt # Idle /\ hamt.pc = "done" /\ hamt.result.err = "nil") =>
        /\ BitmapOf(hamt.sharder)
        /\ \A i \in 1..Len(hamt.sink) :
             /\ 8 * Len(hamt.sink[i].data.data) = hamt.sink[i].data.fanout
             /\ Len(hamt.sink[i].links) = SetBits(hamt.sink[i].data.data)

\* C28: the position a single-node file stores is never negative, whatever
\* Seek and Read calls were made, so Read never slices the buffer at a
\* negative offset
C28_PositionNotNegative ==
    sf # Idle => (sf.offset >= 0 /\ sf.pc # "panic")

\* C29: over any sequence of calls on a deferred file node resolve succeeds
\* at most once and never runs with a cleared link system: after the first
\* successful load every call goes to the file node, and while no load has
\* succeeded root, link system and context are as they were given
C29_ResolveOnce ==
    dfn # Idle =>
        /\ dfn.resolved <= 1
        /\ dfn.pc # "panic"
        /\ dfn.resolved = 0 => dfn.d = newDeferredFileNode
        /\ dfn.resolved = 1 =>
             /\ dfn.d.StreamableByteNode = "file"
             /\ dfn.ret.err = "nil"
             /\ dfn.ret.val = "file"

\* a failed load was retried with success, and a later call went to the
\* file node
C29_Witness ==
    /\ dfn # Idle
    /\ dfn.failed > 0
    /\ dfn.resolved = 1
    /\ dfn.calls > dfn.failed + dfn.resolved

\* the raw leaves under a block
RECURSIVE Leaves(_)
Leaves(b) ==
    IF b = Nil THEN 0
    ELSE IF b.codec = "raw" THEN 1
    ELSE SumSeq([i \in 1..Len(b.links) |-> Leaves(b.links[i].hash)])

\* the step ends a round of the outer loop of BuildUnixFSFile
RoundEnd ==
    \/ pc = "loop" /\ depth = 1
    \/ pc = "call" /\ pc' # "call"

\* the round the step ends consumed no chunk: the chunks consumed are those
\* under the result of the round before
NoNewChunk == pos' = Leaves(IF prev = <<>> THEN Nil ELSE prev[1].link)

IsRaw(b) == b.codec = "raw"

\* BuildUnixFSFile returned the root: every chunk was consumed and the raw
\* blocks written are the chunks, one write each and in their order (for
\* the empty stream the one empty leaf)
LeavesWritten ==
    Done =>
        /\ pos = Len(stream)
        /\ SelectSeq(sink, IsRaw) =
             IF stream = <<>> THEN <<NewBytes(<<>>)>>
             ELSE [k \in 1..Len(stream) |-> NewBytes(stream[k])]

\* C30 as stated: the build terminates, the outer loop returns in the first
\* round that consumes no new chunk, and every chunk is then written as
\* exactly one leaf
C30_Original ==
    /\ <>(pc = "done")
    /\ [][(RoundEnd /\ failed' = "nil") => (pc' = "done" <=> NoNewChunk)]_vars
    /\ []LeavesWritten

\* C30: the build terminates for every finite stream, the outer loop returns
\* in the first round after the first one that consumes no new chunk, and
\* every chunk is then written as exactly one leaf
C30_Terminates ==
    /\ <>(pc = "done")
    /\ [][(RoundEnd /\ failed' = "nil") =>
            (pc' = "done" <=> (prev # <<>> /\ NoNewChunk))]_vars
    /\ []LeavesWritten

\* a build of more chunks than one node holds returned its root
C30_Witness ==
    /\ Done
    /\ Len(stream) > DefaultLinksPerBlock
    /\ depth > 2
    /\ pos = Len(stream)

====
